---- MODULE Spec2Model ----
(***************************************************************************)
(* A model of the cloudevents crate: the per-version builders and their    *)
(* build() validation, the envelope structs, the scalar unions Data and    *)
(* ExtensionValue, the serde JSON encoding of all of them, the             *)
(* construction macros, get_event_field! and Data::from_binary.            *)
(*                                                                         *)
(* Strings are sequences of tokens: "http://www.google.com" is             *)
(* <<"http", ":", "//", "www.google.com">> and "" is <<>>.  The parsers    *)
(* of the url and chrono crates work on the tokens.                        *)
(***************************************************************************)
EXTENDS Integers, Sequences, FiniteSets, TLC

VARIABLES
    builder,    \* the builder under construction (either version)
    moved,      \* TRUE once build(self) has consumed the builder
    result,     \* what build() returned: NoResult, Ok(envelope) or Err(message)
    clock,      \* the system clock, in hours after 1970-01-02T00:00:00Z
    made,       \* what the public constructor new() returned
    wire,       \* a JSON document: the members of one JSON object, in order
    sent,       \* the envelope whose encoding wire holds (NoEvent for a foreign document)
    target,     \* the type wire was decoded as ("none" before decoding)
    decoded,    \* what decoding wire returned
    got,        \* what get_event_field! returned, and the wrapper it was given
    args,       \* the field assignments written in a macro call
    macros,     \* what each construction macro returned for args
    bytes,      \* a byte sequence
    blob        \* what Data::from_binary(bytes) returned

vars == <<builder, moved, result, clock, made, wire, sent, target, decoded,
          got, args, macros, bytes, blob>>

\* ------------------------------------------------------------------ bounds

MaxClock == 1
MaxBytes == 3
MaxFields == 4

\* ------------------------------------------------------- Option and Result

None == [some |-> FALSE]
Some(x) == [some |-> TRUE, v |-> x]

NoResult == [kind |-> "none"]
Ok(e) == [kind |-> "ok", event |-> e]
Err(m) == [kind |-> "err", msg |-> m]

\* A one-token string.
S(tok) == <<tok>>

\* ------------------------------------------------------------ url::Url::parse

SpecialSchemes == {"http", "https"}
SchemeTokens == {"http", "https", "HTTP", "urn", "mailto"}

Lower(tok) ==
    CASE tok = "HTTP" -> "http"
      [] tok = "EXAMPLE.com" -> "example.com"
      [] OTHER -> tok

UrlOk(u) == [ok |-> TRUE, url |-> u, err |-> "none"]
UrlErr(e) == [ok |-> FALSE, url |-> <<>>, err |-> e]

\* Display text of url::ParseError.
ParseErrorText(e) ==
    CASE e = "EmptyHost" -> S("empty host")
      [] e = "InvalidIpv6Address" -> S("invalid IPv6 address")
      [] e = "InvalidPort" -> S("invalid port number")
      [] e = "RelativeUrlWithoutBase" -> S("relative URL without base")

\* Url::parse(s) without a base URL.  A string that does not start with
\* "scheme:" is a relative reference; a special scheme needs a host, an
\* IPv6 host needs its closing bracket and a port is a number.  The URL
\* returned is normalised: lower-case scheme and host, "/" for an empty path.
UrlParse(s) ==
    IF ~(Len(s) >= 2 /\ s[1] \in SchemeTokens /\ s[2] = ":")
    THEN UrlErr("RelativeUrlWithoutBase")
    ELSE LET scheme == Lower(s[1])
             rest == SubSeq(s, 3, Len(s))
         IN  IF scheme \notin SpecialSchemes
             THEN UrlOk(<<scheme, ":">> \o rest)
             ELSE LET auth == IF rest # <<>> /\ rest[1] = "//" THEN Tail(rest) ELSE rest
                  IN  IF auth = <<>> \/ auth[1] = "/"
                      THEN UrlErr("EmptyHost")
                      ELSE IF auth[1] = "[::1"
                      THEN UrlErr("InvalidIpv6Address")
                      ELSE IF Len(auth) >= 3 /\ auth[2] = ":" /\ auth[3] \notin {"80", "8080"}
                      THEN UrlErr("InvalidPort")
                      ELSE LET path == Tail(auth)
                           IN  UrlOk(<<scheme, ":", "//", Lower(auth[1])>>
                                     \o (IF path = <<>> THEN <<"/">> ELSE path))

\* ------------------------------------------- chrono::DateTime<FixedOffset>

\* A timestamp is an instant (hours after 1970-01-01T00:00:00Z) and the
\* fixed offset (hours east of UTC) it is displayed in.
DayTok == <<"1969-12-31", "1970-01-01", "1970-01-02", "1970-01-03">>
HourTok == <<"00:00:00", "01:00:00", "02:00:00", "03:00:00", "04:00:00", "05:00:00",
             "06:00:00", "07:00:00", "08:00:00", "09:00:00", "10:00:00", "11:00:00",
             "12:00:00", "13:00:00", "14:00:00", "15:00:00", "16:00:00", "17:00:00",
             "18:00:00", "19:00:00", "20:00:00", "21:00:00", "22:00:00", "23:00:00">>
OffsetTok == <<"-01:00", "+00:00", "+01:00">>

IndexOf(seq, tok) == CHOOSE i \in 1..Len(seq) : seq[i] = tok
Range(seq) == {seq[i] : i \in 1..Len(seq)}

DayOf(tok) == IndexOf(DayTok, tok) - 2
HourOf(tok) == IndexOf(HourTok, tok) - 1
OffsetOf(tok) == IF tok = "Z" THEN 0 ELSE IndexOf(OffsetTok, tok) - 2

TimeOk(t) == [ok |-> TRUE, time |-> t, err |-> "none"]
TimeErr(e) == [ok |-> FALSE, time |-> [utc |-> 0, off |-> 0], err |-> e]

\* Display text of chrono::format::ParseError.
ChronoErrorText(e) ==
    CASE e = "TooShort" -> S("premature end of input")
      [] e = "Invalid" -> S("input contains invalid characters")
      [] e = "OutOfRange" -> S("input is out of range")
      [] e = "TooLong" -> S("trailing input")

\* DateTime::parse_from_rfc3339: date "T" time offset, nothing else.
ParseRfc3339(s) ==
    IF Len(s) = 0 THEN TimeErr("TooShort")
    ELSE IF s[1] \notin Range(DayTok) THEN TimeErr("Invalid")
    ELSE IF Len(s) = 1 THEN TimeErr("TooShort")
    ELSE IF s[2] # "T" THEN TimeErr("Invalid")
    ELSE IF Len(s) = 2 THEN TimeErr("TooShort")
    ELSE IF s[3] = "24:00:00" THEN TimeErr("OutOfRange")
    ELSE IF s[3] \notin Range(HourTok) THEN TimeErr("Invalid")
    ELSE IF Len(s) = 3 THEN TimeErr("TooShort")
    ELSE IF s[4] \notin Range(OffsetTok) \cup {"Z"} THEN TimeErr("Invalid")
    ELSE IF Len(s) > 4 THEN TimeErr("TooLong")
    ELSE TimeOk([utc |-> DayOf(s[1]) * 24 + HourOf(s[3]) - OffsetOf(s[4]),
                 off |-> OffsetOf(s[4])])

\* Mutant: the local time is written with a zero offset.
FormatRfc3339_OffsetDropped(t) ==
    LET local == t.utc + t.off
    IN  <<DayTok[(local \div 24) + 2], "T", HourTok[(local % 24) + 1], OffsetTok[2]>>

\* The RFC3339 text of a timestamp, in its own offset (serde Serialize of
\* DateTime<FixedOffset>): the offset is always numeric, never "Z".
FormatRfc3339(t) ==
    LET local == t.utc + t.off
    IN  <<DayTok[(local \div 24) + 2], "T", HourTok[(local % 24) + 1], OffsetTok[t.off + 2]>>

\* DateTime::<FixedOffset>::from(Local::now()) when the clock reads c and the
\* local time zone is tz hours east of UTC.
LocalOffsets == {-1, 0, 1}
Now(c, tz) == [utc |-> 24 + c, off |-> tz]

\* PartialEq of DateTime compares the instants, not the offsets.
TimeEq(a, b) == a.utc = b.utc

\* ------------------------------------------------------ Data, ExtensionValue

\* serde_json::Value
JNull == [t |-> "null"]
JBool(b) == [t |-> "bool", b |-> b]
JNum(n) == [t |-> "num", n |-> n]
JStr(s) == [t |-> "str", s |-> s]
JArr(a) == [t |-> "arr", a |-> a]
JObj(o) == [t |-> "obj", o |-> o]

Data_StringOrBinary(s) == [tag |-> "StringOrBinary", s |-> s]
Data_Object(j) == [tag |-> "Object", j |-> j]
ExtensionValue_String(s) == [tag |-> "String", s |-> s]
ExtensionValue_Object(j) == [tag |-> "Object", j |-> j]

Data_from_string(s) == Data_StringOrBinary(s)
Data_from_serializable(j) == Data_Object(j)
ExtensionValue_from_string(s) == ExtensionValue_String(s)
ExtensionValue_from_serializable(j) == ExtensionValue_Object(j)

NoData == [tag |-> "none"]

\* ------------------------------------------------------------ base64::encode

\* The standard alphabet; a base64 text is a sequence of its characters
\* and of the padding character "=".
Base64Alphabet ==
    <<"A", "B", "C", "D", "E", "F", "G", "H", "I", "J", "K", "L", "M", "N", "O", "P",
      "Q", "R", "S", "T", "U", "V", "W", "X", "Y", "Z", "a", "b", "c", "d", "e", "f",
      "g", "h", "i", "j", "k", "l", "m", "n", "o", "p", "q", "r", "s", "t", "u", "v",
      "w", "x", "y", "z", "0", "1", "2", "3", "4", "5", "6", "7", "8", "9", "+", "/">>

\* The four 6-bit groups of a 24-bit number, as characters.
Sextets(n) ==
    <<Base64Alphabet[(n \div 262144) + 1], Base64Alphabet[((n \div 4096) % 64) + 1],
      Base64Alphabet[((n \div 64) % 64) + 1], Base64Alphabet[(n % 64) + 1]>>

\* Mutant: the last group is not padded.
RECURSIVE Base64Encode_Unpadded(_)
Base64Encode_Unpadded(b) ==
    IF Len(b) = 0 THEN <<>>
    ELSE IF Len(b) = 1 THEN SubSeq(Sextets(b[1] * 65536), 1, 2)
    ELSE IF Len(b) = 2 THEN SubSeq(Sextets(b[1] * 65536 + b[2] * 256), 1, 3)
    ELSE Sextets(b[1] * 65536 + b[2] * 256 + b[3])
         \o Base64Encode_Unpadded(SubSeq(b, 4, Len(b)))

\* base64::encode: three bytes give four characters; a last group of one
\* or two bytes is padded with "=" to four characters.
RECURSIVE Base64Encode(_)
Base64Encode(b) ==
    IF Len(b) = 0 THEN <<>>
    ELSE IF Len(b) = 1 THEN SubSeq(Sextets(b[1] * 65536), 1, 2) \o <<"=", "=">>
    ELSE IF Len(b) = 2 THEN SubSeq(Sextets(b[1] * 65536 + b[2] * 256), 1, 3) \o <<"=">>
    ELSE Sextets(b[1] * 65536 + b[2] * 256 + b[3]) \o Base64Encode(SubSeq(b, 4, Len(b)))

\* Data::from_binary
Data_from_binary(i) == Data_StringOrBinary(Base64Encode(i))

\* ------------------------------------------------------------- envelopes

NoEvent == [none |-> TRUE]

\* Mutant: the subject is not stored.
CloudEventV1_0_new_SubjectDropped(event_type, src, id, time, subject, dataschema, datacontenttype, data, extensions) ==
    [event_type |-> event_type, specversion |-> S("1.0"), source |-> src, id |-> id,
     time |-> time, subject |-> None, dataschema |-> dataschema,
     datacontenttype |-> datacontenttype, data |-> data, extensions |-> extensions]

CloudEventV1_0_new(event_type, src, id, time, subject, dataschema, datacontenttype, data, extensions) ==
    [event_type |-> event_type, specversion |-> S("1.0"), source |-> src, id |-> id,
     time |-> time, subject |-> subject, dataschema |-> dataschema,
     datacontenttype |-> datacontenttype, data |-> data, extensions |-> extensions]

CloudEventV0_2_new(event_type, src, id, time, schemaurl, contenttype, data, extensions) ==
    [event_type |-> event_type, specversion |-> S("0.2"), source |-> src, id |-> id,
     time |-> time, schemaurl |-> schemaurl, contenttype |-> contenttype,
     data |-> data, extensions |-> extensions]

IsV1_0(e) == "dataschema" \in DOMAIN e
IsV0_2(e) == "schemaurl" \in DOMAIN e

\* The accessors of both envelope types.
Get_event_type(e) == e.event_type
Get_source(e) == e.source
Get_event_id(e) == e.id
Get_event_time(e) == e.time
Get_subject(e) == e.subject
Get_dataschema(e) == e.dataschema
Get_datacontenttype(e) == e.datacontenttype
Get_schema_url(e) == e.schemaurl
Get_contenttype(e) == e.contenttype
Get_data(e) == e.data
Get_extensions(e) == e.extensions

\* ------------------------------------------------------------ serde JSON

\* A JSON document on the wire is the sequence of the members <<key, value>>
\* of one JSON object, in the order they are written.
Has(doc, k) == \E i \in 1..Len(doc) : doc[i][1] = k
Val(doc, k) == doc[CHOOSE i \in 1..Len(doc) : doc[i][1] = k][2]

\* Mutant: the text variant is written inside an array.
Data_serialize_TextWrapped(d) == IF d.tag = "StringOrBinary" THEN JArr(<<JStr(d.s)>>) ELSE d.j

\* #[serde(untagged)] Serialize: the payload of the variant, without a tag.
Data_serialize(d) == IF d.tag = "StringOrBinary" THEN JStr(d.s) ELSE d.j
ExtensionValue_serialize(x) == IF x.tag = "String" THEN JStr(x.s) ELSE x.j

\* Mutant: the Value variant is tried first.
Data_deserialize_ObjectFirst(j) == Data_Object(j)

\* #[serde(untagged)] Deserialize: the first variant that fits, in the order
\* of declaration: a String for a JSON string, else a Value.
Data_deserialize(j) == IF j.t = "str" THEN Data_StringOrBinary(j.s) ELSE Data_Object(j)
ExtensionValue_deserialize(j) ==
    IF j.t = "str" THEN ExtensionValue_String(j.s) ELSE ExtensionValue_Object(j)

\* Serialize of DateTime<FixedOffset>: its RFC3339 text.
Time_serialize(t) == JStr(FormatRfc3339(t))

Extensions_serialize(m) == JObj([k \in DOMAIN m |-> ExtensionValue_serialize(m[k])])
Extensions_deserialize(j) == [k \in DOMAIN j.o |-> ExtensionValue_deserialize(j.o[k])]

\* derive(Serialize) of CloudEventV1_0: the fields in declaration order.
SerializeV1_0(e) ==
    << <<"type", JStr(e.event_type)>>, <<"specversion", JStr(e.specversion)>>,
       <<"source", JStr(e.source)>>, <<"id", JStr(e.id)>> >>
    \o (IF e.time.some THEN << <<"time", Time_serialize(e.time.v)>> >> ELSE <<>>)
    \o (IF e.subject.some THEN << <<"subject", JStr(e.subject.v)>> >> ELSE <<>>)
    \o (IF e.dataschema.some THEN << <<"dataschema", JStr(e.dataschema.v)>> >> ELSE <<>>)
    \o (IF e.datacontenttype.some
        THEN << <<"datacontenttype", JStr(e.datacontenttype.v)>> >> ELSE <<>>)
    \o (IF e.data.some THEN << <<"data", Data_serialize(e.data.v)>> >> ELSE <<>>)
    \o (IF e.extensions.some
        THEN << <<"extensions", Extensions_serialize(e.extensions.v)>> >> ELSE <<>>)

\* Mutant: an absent time is written as null.
SerializeV0_2_NullWhenAbsent(e) ==
    << <<"type", JStr(e.event_type)>>, <<"specversion", JStr(e.specversion)>>,
       <<"source", JStr(e.source)>>, <<"id", JStr(e.id)>>,
       <<"time", IF e.time.some THEN Time_serialize(e.time.v) ELSE JNull>> >>
    \o (IF e.schemaurl.some THEN << <<"schemaurl", JStr(e.schemaurl.v)>> >> ELSE <<>>)
    \o (IF e.contenttype.some THEN << <<"contenttype", JStr(e.contenttype.v)>> >> ELSE <<>>)
    \o (IF e.data.some THEN << <<"data", Data_serialize(e.data.v)>> >> ELSE <<>>)
    \o (IF e.extensions.some
        THEN << <<"extensions", Extensions_serialize(e.extensions.v)>> >> ELSE <<>>)

\* derive(Serialize) of CloudEventV0_2
SerializeV0_2(e) ==
    << <<"type", JStr(e.event_type)>>, <<"specversion", JStr(e.specversion)>>,
       <<"source", JStr(e.source)>>, <<"id", JStr(e.id)>> >>
    \o (IF e.time.some THEN << <<"time", Time_serialize(e.time.v)>> >> ELSE <<>>)
    \o (IF e.schemaurl.some THEN << <<"schemaurl", JStr(e.schemaurl.v)>> >> ELSE <<>>)
    \o (IF e.contenttype.some THEN << <<"contenttype", JStr(e.contenttype.v)>> >> ELSE <<>>)
    \o (IF e.data.some THEN << <<"data", Data_serialize(e.data.v)>> >> ELSE <<>>)
    \o (IF e.extensions.some
        THEN << <<"extensions", Extensions_serialize(e.extensions.v)>> >> ELSE <<>>)

\* The JSON key and the type of each field of the two structs.
FieldsV1_0 ==
    [type |-> "String", specversion |-> "String", source |-> "String", id |-> "String",
     time |-> "OptTime", subject |-> "OptString", dataschema |-> "OptString",
     datacontenttype |-> "OptString", data |-> "OptData", extensions |-> "OptExt"]

FieldsV0_2 ==
    [type |-> "String", specversion |-> "String", source |-> "String", id |-> "String",
     time |-> "OptTime", schemaurl |-> "OptString", contenttype |-> "OptString",
     data |-> "OptData", extensions |-> "OptExt"]

RequiredKeys == <<"type", "specversion", "source", "id">>

\* Whether a JSON value deserializes as a field of the given type.  An
\* Option takes null as None.
FieldFits(ty, j) ==
    CASE ty = "String" -> j.t = "str"
      [] ty = "OptString" -> j.t \in {"str", "null"}
      [] ty = "OptTime" -> j.t = "null" \/ (j.t = "str" /\ ParseRfc3339(j.s).ok)
      [] ty = "OptData" -> TRUE
      [] ty = "OptExt" -> j.t \in {"null", "obj"}

\* The generated visit_map: the members in order; a key that is no field is
\* ignored, a field met twice or a value of the wrong type is an error.
RECURSIVE VisitMap(_, _, _, _)
VisitMap(fields, doc, i, seen) ==
    IF i > Len(doc) THEN "ok"
    ELSE LET k == doc[i][1]
             j == doc[i][2]
         IN  IF k \notin DOMAIN fields THEN VisitMap(fields, doc, i + 1, seen)
             ELSE IF k \in seen THEN "duplicate field"
             ELSE IF ~FieldFits(fields[k], j) THEN "invalid type"
             ELSE VisitMap(fields, doc, i + 1, seen \cup {k})

MissingKeys(doc) == {i \in 1..Len(RequiredKeys) : ~Has(doc, RequiredKeys[i])}
FirstMissing(doc) == RequiredKeys[CHOOSE i \in MissingKeys(doc) : \A j \in MissingKeys(doc) : i <= j]

\* The value of an optional field: #[serde(default)] when the key is absent.
OptString(doc, k) == IF Has(doc, k) /\ Val(doc, k).t # "null" THEN Some(Val(doc, k).s) ELSE None
OptTime(doc, k) ==
    IF Has(doc, k) /\ Val(doc, k).t # "null" THEN Some(ParseRfc3339(Val(doc, k).s).time) ELSE None
OptData(doc, k) ==
    IF Has(doc, k) /\ Val(doc, k).t # "null" THEN Some(Data_deserialize(Val(doc, k))) ELSE None
OptExt(doc, k) ==
    IF Has(doc, k) /\ Val(doc, k).t # "null" THEN Some(Extensions_deserialize(Val(doc, k))) ELSE None

\* derive(Deserialize) of CloudEventV1_0: every field, specversion too, is
\* read from the document.
DeserializeV1_0(doc) ==
    LET r == VisitMap(FieldsV1_0, doc, 1, {})
    IN  IF r # "ok" THEN Err(S(r))
        ELSE IF MissingKeys(doc) # {} THEN Err(<<"missing field", FirstMissing(doc)>>)
        ELSE Ok([event_type |-> Val(doc, "type").s,
                 specversion |-> Val(doc, "specversion").s,
                 source |-> Val(doc, "source").s,
                 id |-> Val(doc, "id").s,
                 time |-> OptTime(doc, "time"),
                 subject |-> OptString(doc, "subject"),
                 dataschema |-> OptString(doc, "dataschema"),
                 datacontenttype |-> OptString(doc, "datacontenttype"),
                 data |-> OptData(doc, "data"),
                 extensions |-> OptExt(doc, "extensions")])

\* derive(Deserialize) of CloudEventV0_2
DeserializeV0_2(doc) ==
    LET r == VisitMap(FieldsV0_2, doc, 1, {})
    IN  IF r # "ok" THEN Err(S(r))
        ELSE IF MissingKeys(doc) # {} THEN Err(<<"missing field", FirstMissing(doc)>>)
        ELSE Ok([event_type |-> Val(doc, "type").s,
                 specversion |-> Val(doc, "specversion").s,
                 source |-> Val(doc, "source").s,
                 id |-> Val(doc, "id").s,
                 time |-> OptTime(doc, "time"),
                 schemaurl |-> OptString(doc, "schemaurl"),
                 contenttype |-> OptString(doc, "contenttype"),
                 data |-> OptData(doc, "data"),
                 extensions |-> OptExt(doc, "extensions")])

\* The wrapper enum CloudEvent.
CloudEvent_V1_0(e) == [variant |-> "V1_0", inner |-> e]
CloudEvent_V0_2(e) == [variant |-> "V0_2", inner |-> e]

\* Mutant: V0_2 is tried first.
DeserializeCloudEvent_V0_2First(doc) ==
    IF DeserializeV0_2(doc).kind = "ok" THEN Ok(CloudEvent_V0_2(DeserializeV0_2(doc).event))
    ELSE IF DeserializeV1_0(doc).kind = "ok"
         THEN Ok(CloudEvent_V1_0(DeserializeV1_0(doc).event))
    ELSE Err(S("data did not match any variant of untagged enum CloudEvent"))

\* Mutant: a document that fits neither shape gives an envelope of defaults.
DeserializeCloudEvent_DefaultWhenUnmatched(doc) ==
    IF DeserializeV1_0(doc).kind = "ok" THEN Ok(CloudEvent_V1_0(DeserializeV1_0(doc).event))
    ELSE IF DeserializeV0_2(doc).kind = "ok"
         THEN Ok(CloudEvent_V0_2(DeserializeV0_2(doc).event))
    ELSE Ok(CloudEvent_V1_0(CloudEventV1_0_new(<<>>, <<>>, <<>>, None, None, None, None,
                                               None, None)))

\* #[serde(untagged)] Deserialize of CloudEvent: V1_0 is tried first, then
\* V0_2; the first that deserializes wins.
DeserializeCloudEvent(doc) ==
    IF DeserializeV1_0(doc).kind = "ok" THEN Ok(CloudEvent_V1_0(DeserializeV1_0(doc).event))
    ELSE IF DeserializeV0_2(doc).kind = "ok"
         THEN Ok(CloudEvent_V0_2(DeserializeV0_2(doc).event))
    ELSE Err(S("data did not match any variant of untagged enum CloudEvent"))

\* ------------------------------------------------------- get_event_field!

\* The accessors both envelope types have; $value is one of these names.
CommonFields == {"event_type", "source", "event_id", "event_time", "data", "extensions"}

\* Mutant: event_id resolves to the source accessor.
Method_IdIsSource(e, value) ==
    CASE value = "event_type" -> Get_event_type(e)
      [] value = "source" -> Get_source(e)
      [] value = "event_id" -> Get_source(e)
      [] value = "event_time" -> Get_event_time(e)
      [] value = "data" -> Get_data(e)
      [] value = "extensions" -> Get_extensions(e)

\* e.$value(): the method of that name.
Method(e, value) ==
    CASE value = "event_type" -> Get_event_type(e)
      [] value = "source" -> Get_source(e)
      [] value = "event_id" -> Get_event_id(e)
      [] value = "event_time" -> Get_event_time(e)
      [] value = "data" -> Get_data(e)
      [] value = "extensions" -> Get_extensions(e)

\* match $event { V0_2(ref e) => e.$value(), V1_0(ref e) => e.$value() }
Macro_get_event_field(event, value) ==
    CASE event.variant = "V0_2" -> Method(event.inner, value)
      [] event.variant = "V1_0" -> Method(event.inner, value)

NoField == [field |-> "none"]

SerializeEvent(e) == IF IsV1_0(e) THEN SerializeV1_0(e) ELSE SerializeV0_2(e)

\* derive(PartialEq) of the envelope structs: field by field, the time by
\* DateTime's PartialEq.
OptTimeEq(a, b) == a.some = b.some /\ (a.some => TimeEq(a.v, b.v))
EventEq(a, b) ==
    /\ IsV1_0(a) = IsV1_0(b)
    /\ OptTimeEq(a.time, b.time)
    /\ [a EXCEPT !.time = None] = [b EXCEPT !.time = None]

\* -------------------------------------------------------------- builders

CloudEventV1_0Builder_default ==
    [kind |-> "V1_0", event_type |-> None, source |-> None, id |-> None, time |-> None,
     subject |-> None, dataschema |-> None, datacontenttype |-> None, data |-> None,
     extensions |-> None]

CloudEventV0_2Builder_default ==
    [kind |-> "V0_2", event_type |-> None, source |-> None, id |-> None, time |-> None,
     schemaurl |-> None, contenttype |-> None, data |-> None, extensions |-> None]

\* type DefaultCloudEventBuilder = CloudEventV1_0Builder
DefaultCloudEventBuilder == CloudEventV1_0Builder_default

\* Mutant: only an absolute URI is accepted.
UriAccepted_AbsoluteOnly(s) == UrlParse(s).ok

\* Ok(_) | Err(ParseError::RelativeUrlWithoutBase) => keep the string
UriAccepted(s) ==
    LET p == UrlParse(s) IN p.ok \/ p.err = "RelativeUrlWithoutBase"

\* Mutant: the serialisation of the parsed URL is kept.
UriKept_Normalised(s) == IF UrlParse(s).ok THEN UrlParse(s).url ELSE s

\* ... => source: the string given to the setter, not the parsed URL
UriKept(s) == s

ArgOk(x) == [ok |-> TRUE, time |-> x, err |-> "none"]
ArgErr(e) == [ok |-> FALSE, time |-> None, err |-> e]

\* Mutant: a parsed time is moved to the local offset.
V1_0_time_InLocalZone(t, now) ==
    IF ~t.some THEN ArgOk(None)
    ELSE IF t.v = S("now") THEN ArgOk(Some(now))
    ELSE LET p == ParseRfc3339(t.v)
         IN  IF p.ok THEN ArgOk(Some([utc |-> p.time.utc, off |-> now.off]))
             ELSE ArgErr(p.err)

\* Mutant: "now" is parsed like any other string.
V1_0_time_NowParsed(t, now) ==
    IF ~t.some THEN ArgOk(None)
    ELSE LET p == ParseRfc3339(t.v)
         IN  IF p.ok THEN ArgOk(Some(p.time)) ELSE ArgErr(p.err)

\* The time argument of V1_0 build(): "now" reads the clock, anything else
\* is parsed as RFC3339.
V1_0_time(t, now) ==
    IF ~t.some THEN ArgOk(None)
    ELSE IF t.v = S("now") THEN ArgOk(Some(now))
    ELSE LET p == ParseRfc3339(t.v)
         IN  IF p.ok THEN ArgOk(Some(p.time)) ELSE ArgErr(p.err)

\* Mutant: "now" is a shorthand here too.
V0_2_time_NowShorthand(t) ==
    IF ~t.some THEN ArgOk(None)
    ELSE IF t.v = S("now") THEN ArgOk(Some([utc |-> 24, off |-> 0]))
    ELSE LET p == ParseRfc3339(t.v)
         IN  IF p.ok THEN ArgOk(Some(p.time)) ELSE ArgErr(p.err)

\* Mutant: a string that does not parse leaves the time absent.
V0_2_time_DropsInvalid(t) ==
    IF ~t.some THEN ArgOk(None)
    ELSE LET p == ParseRfc3339(t.v)
         IN  IF p.ok THEN ArgOk(Some(p.time)) ELSE ArgOk(None)

\* The time argument of V0_2 build(): always parsed as RFC3339.
V0_2_time(t) ==
    IF ~t.some THEN ArgOk(None)
    ELSE LET p == ParseRfc3339(t.v)
         IN  IF p.ok THEN ArgOk(Some(p.time)) ELSE ArgErr(p.err)

\* Mutant: the parsed URL is kept.
SchemaArg_Normalised(x) ==
    IF x.some THEN Some(IF UrlParse(x.v).ok THEN UrlParse(x.v).url ELSE x.v) ELSE None

\* The schema argument of build() (dataschema / schemaurl).
SchemaArg(x) == IF x.some THEN Some(UriKept(x.v)) ELSE None

\* Mutant: the id is checked before the source is parsed.
BuildV1_0_IdBeforeSourceFormat(b, now) ==
    IF ~b.event_type.some THEN Err(<<"Event type", "is required">>)
    ELSE IF ~b.source.some THEN Err(<<"Source", "is required">>)
    ELSE IF ~b.id.some THEN Err(<<"Event id", "is required">>)
    ELSE IF ~UriAccepted(b.source.v) THEN Err(ParseErrorText(UrlParse(b.source.v).err))
    ELSE IF ~V1_0_time(b.time, now).ok THEN Err(ChronoErrorText(V1_0_time(b.time, now).err))
    ELSE IF b.dataschema.some /\ ~UriAccepted(b.dataschema.v)
         THEN Err(ParseErrorText(UrlParse(b.dataschema.v).err))
    ELSE Ok(CloudEventV1_0_new(b.event_type.v, UriKept(b.source.v), b.id.v,
                               V1_0_time(b.time, now).time, b.subject,
                               SchemaArg(b.dataschema), b.datacontenttype, b.data,
                               b.extensions))

\* CloudEventV1_0Builder::build: the arguments of new() are evaluated in
\* order and the first failing one returns its error.
BuildV1_0(b, now) ==
    IF ~b.event_type.some THEN Err(<<"Event type", "is required">>)
    ELSE IF ~b.source.some THEN Err(<<"Source", "is required">>)
    ELSE IF ~UriAccepted(b.source.v) THEN Err(ParseErrorText(UrlParse(b.source.v).err))
    ELSE IF ~b.id.some THEN Err(<<"Event id", "is required">>)
    ELSE IF ~V1_0_time(b.time, now).ok THEN Err(ChronoErrorText(V1_0_time(b.time, now).err))
    ELSE IF b.dataschema.some /\ ~UriAccepted(b.dataschema.v)
         THEN Err(ParseErrorText(UrlParse(b.dataschema.v).err))
    ELSE Ok(CloudEventV1_0_new(b.event_type.v, UriKept(b.source.v), b.id.v,
                               V1_0_time(b.time, now).time, b.subject,
                               SchemaArg(b.dataschema), b.datacontenttype, b.data,
                               b.extensions))

\* Mutant: the source is checked before the event type.
BuildV0_2_SourceBeforeType(b) ==
    IF ~b.source.some THEN Err(<<"Source", "is required">>)
    ELSE IF ~b.event_type.some THEN Err(<<"Event type", "is required">>)
    ELSE IF ~UriAccepted(b.source.v) THEN Err(ParseErrorText(UrlParse(b.source.v).err))
    ELSE IF ~b.id.some THEN Err(<<"Event id", "is required">>)
    ELSE IF ~V0_2_time(b.time).ok THEN Err(ChronoErrorText(V0_2_time(b.time).err))
    ELSE IF b.schemaurl.some /\ ~UriAccepted(b.schemaurl.v)
         THEN Err(ParseErrorText(UrlParse(b.schemaurl.v).err))
    ELSE Ok(CloudEventV0_2_new(b.event_type.v, UriKept(b.source.v), b.id.v,
                               V0_2_time(b.time).time, SchemaArg(b.schemaurl),
                               b.contenttype, b.data, b.extensions))

\* CloudEventV0_2Builder::build
BuildV0_2(b) ==
    IF ~b.event_type.some THEN Err(<<"Event type", "is required">>)
    ELSE IF ~b.source.some THEN Err(<<"Source", "is required">>)
    ELSE IF ~UriAccepted(b.source.v) THEN Err(ParseErrorText(UrlParse(b.source.v).err))
    ELSE IF ~b.id.some THEN Err(<<"Event id", "is required">>)
    ELSE IF ~V0_2_time(b.time).ok THEN Err(ChronoErrorText(V0_2_time(b.time).err))
    ELSE IF b.schemaurl.some /\ ~UriAccepted(b.schemaurl.v)
         THEN Err(ParseErrorText(UrlParse(b.schemaurl.v).err))
    ELSE Ok(CloudEventV0_2_new(b.event_type.v, UriKept(b.source.v), b.id.v,
                               V0_2_time(b.time).time, SchemaArg(b.schemaurl),
                               b.contenttype, b.data, b.extensions))

\* ---------------------------------------------------------------- inputs

AbsSource == <<"http", ":", "//", "www.google.com">>
RelSource == S("/cloudevents/spec/pull/123")
UrnSource == <<"urn", ":", "event:from:myapi/resourse/123">>
NoHostUri == <<"http", ":", "//">>
BadIpv6Uri == <<"http", ":", "//", "[::1">>
AbsSchema == <<"https", ":", "//", "lol.org", "/schema.json">>
RelSchema == S("schema.json")

UtcTime == <<"1970-01-02", "T", "12:00:00", "Z">>
EastTime == <<"1970-01-01", "T", "00:00:00", "+01:00">>

TypeInputs == {S("test type"), <<>>}
SourceInputs == {AbsSource, RelSource, UrnSource, NoHostUri, BadIpv6Uri}
IdInputs == {S("id")}
TimeInputs == {UtcTime, EastTime, S("now"), S("not-a-date")}
SubjectInputs == {S("me")}
SchemaInputs == {AbsSchema, AbsSource, RelSchema, NoHostUri}
ContentTypeInputs == {S("application/json")}
DataInputs == {Data_from_string(S("test")), Data_from_serializable(JNum(1))}
ExtensionsInputs == {("k" :> ExtensionValue_from_string(S("v")))}

\* Inputs of the encoding round trip.
StructuredString == Data_from_serializable(JStr(S("test")))
StructuredNull == Data_from_serializable(JNull)
CodecSourceInputs == {AbsSource, RelSource}
CodecTimeInputs == {UtcTime, EastTime, S("now")}
CodecSchemaInputs == {RelSchema}
CodecDataInputs ==
    {Data_from_string(S("test")), StructuredString, StructuredNull,
     Data_from_serializable(JNum(1)), Data_from_serializable(JBool(TRUE)),
     Data_from_serializable(JArr(<<JNum(1), JStr(S("a"))>>)),
     Data_from_serializable(JObj([content |-> JStr(S("content"))]))}
CodecExtensionsInputs ==
    {("k" :> ExtensionValue_from_string(S("v"))),
     ("k" :> ExtensionValue_from_serializable(JStr(S("v")))),
     ("k" :> ExtensionValue_from_serializable(JNum(1))),
     ("k" :> ExtensionValue_from_serializable(JNull)),
     ("k" :> ExtensionValue_from_string(S("v")) @@ "n" :> ExtensionValue_from_serializable(JBool(FALSE)))}

\* Foreign JSON documents.  RequiredDocs: each required key absent, a
\* string or a number.  OptionalDocs: the required keys well-typed, each
\* optional key absent or holding one of a few values.
Choice(key, values) == {<<>>} \cup {<< <<key, j>> >> : j \in values}
RequiredDocs ==
    {ty \o sv \o src \o id :
        ty \in Choice("type", {JStr(S("test type")), JNum(1)}),
        sv \in Choice("specversion", {JStr(S("1.0")), JStr(S("0.2")), JNum(1)}),
        src \in Choice("source", {JStr(AbsSource), JNum(1)}),
        id \in Choice("id", {JStr(S("id")), JNum(1)})}
OptionalDocs ==
    {<< <<"type", JStr(S("test type"))>>, <<"specversion", JStr(sv)>>,
        <<"source", JStr(src)>>, <<"id", JStr(S("id"))>> >> \o tm \o sub \o url \o dat :
        sv \in {S("1.0"), S("0.2"), S("0.3")},
        src \in {AbsSource, NoHostUri},
        tm \in Choice("time", {JStr(S("not-a-date"))}),
        sub \in Choice("subject", {JNum(1)}),
        url \in Choice("schemaurl", {JStr(BadIpv6Uri)}),
        dat \in Choice("data", {JNull, JStr(S("test"))})}
DuplicateDoc ==
    << <<"type", JStr(S("a"))>>, <<"type", JStr(S("b"))>>, <<"specversion", JStr(S("1.0"))>>,
       <<"source", JStr(RelSource)>>, <<"id", JStr(S("id"))>> >>

\* A document only the V0.2 shape fits (its subject is no string), with a
\* time, a payload and extensions.
VariantDoc ==
    << <<"type", JStr(S("test type"))>>, <<"specversion", JStr(S("0.2"))>>,
       <<"source", JStr(RelSource)>>, <<"id", JStr(S("id"))>>, <<"subject", JNum(1)>>,
       <<"time", JStr(EastTime)>>, <<"data", JNum(1)>>,
       <<"extensions", JObj("k" :> JStr(S("v")))>> >>

\* Documents the V1.0 shape fits: every key it knows absent or well-typed,
\* with or without the keys only V0.2 knows.
WellTypedDocs ==
    {<< <<"type", JStr(S("test type"))>>, <<"specversion", JStr(sv)>>,
        <<"source", JStr(AbsSource)>>, <<"id", JStr(S("id"))>> >>
     \o tm \o attrs \o legacy \o dat \o ext :
        sv \in {S("1.0"), S("0.2"), S("0.3")},
        tm \in Choice("time", {JStr(EastTime)}),
        attrs \in {<<>>, << <<"subject", JStr(S("me"))>>, <<"dataschema", JStr(RelSchema)>>,
                            <<"datacontenttype", JStr(S("application/json"))>> >>},
        legacy \in {<<>>, << <<"schemaurl", JStr(AbsSchema)>>,
                             <<"contenttype", JStr(S("text/plain"))>> >>},
        dat \in Choice("data", {JNum(1)}),
        ext \in Choice("extensions", {JObj([k |-> JStr(S("v")), n |-> JNull])})}
Payloads ==
    (RequiredDocs \cup OptionalDocs \cup WellTypedDocs \cup {DuplicateDoc, VariantDoc}) \ {<<>>}

\* Field assignments written in a macro call: <<method name, value>>.
MacroFieldsCommon ==
    {<<"event_type", S("test type")>>, <<"source", AbsSource>>, <<"source", NoHostUri>>,
     <<"event_id", S("id")>>, <<"time", UtcTime>>, <<"time", S("not-a-date")>>}
MacroFieldsV1_0 == MacroFieldsCommon \cup {<<"dataschema", RelSchema>>, <<"dataschema", BadIpv6Uri>>}
MacroFieldsV0_2 == MacroFieldsCommon \cup {<<"schemaurl", RelSchema>>, <<"schemaurl", BadIpv6Uri>>}
FieldLists(assignments) ==
    UNION {[1..n -> assignments] : n \in 1..MaxFields}

\* Byte sequences.
ByteInputs == {0, 97, 108, 118, 255}
ByteSeqs == UNION {[1..n -> ByteInputs] : n \in 0..MaxBytes}

\* Arguments of the public constructors.
NewSourceInputs == {AbsSource, NoHostUri}
NewSchemaInputs == {None, Some(BadIpv6Uri)}

\* --------------------------------------------------------------- actions

Idle == UNCHANGED <<made, wire, sent, target, decoded, got, args, macros, bytes, blob>>

\* CloudEventBuilder::default(): a fresh builder of the current version.
CloudEventBuilder_default ==
    /\ builder' = DefaultCloudEventBuilder
    /\ moved' = FALSE
    /\ result' = NoResult
    /\ UNCHANGED clock
    /\ Idle

CloudEventBuilder_v1_0 ==
    /\ builder' = CloudEventV1_0Builder_default
    /\ moved' = FALSE
    /\ result' = NoResult
    /\ UNCHANGED clock
    /\ Idle

CloudEventBuilder_v0_2 ==
    /\ builder' = CloudEventV0_2Builder_default
    /\ moved' = FALSE
    /\ result' = NoResult
    /\ UNCHANGED clock
    /\ Idle

\* Mutant: a new extensions map is merged into the one already set.
WithSlot_ExtensionsMerged(b, slot, value) ==
    IF slot = "extensions" /\ b.extensions.some
    THEN [b EXCEPT !.extensions = Some(value @@ b.extensions.v)]
    ELSE [b EXCEPT ![slot] = Some(value)]

\* Mutant: the time setter clears the subject or content type.
WithSlot_TimeClearsOthers(b, slot, value) ==
    IF slot = "time"
    THEN [s \in DOMAIN b |->
             IF s = "time" THEN Some(value)
             ELSE IF s \in {"subject", "contenttype"} THEN None
             ELSE b[s]]
    ELSE [b EXCEPT ![slot] = Some(value)]

\* Mutant: a slot already set keeps its value.
WithSlot_KeepFirst(b, slot, value) ==
    IF b[slot].some THEN b ELSE [b EXCEPT ![slot] = Some(value)]

\* A setter: self.<slot> = Some(value); self
WithSlot(b, slot, value) == [b EXCEPT ![slot] = Some(value)]

Builder_event_type(s) ==
    /\ ~moved
    /\ "event_type" \in DOMAIN builder
    /\ builder' = WithSlot(builder, "event_type", s)
    /\ UNCHANGED <<moved, result, clock>>
    /\ Idle

Builder_source(s) ==
    /\ ~moved
    /\ "source" \in DOMAIN builder
    /\ builder' = WithSlot(builder, "source", s)
    /\ UNCHANGED <<moved, result, clock>>
    /\ Idle

Builder_event_id(s) ==
    /\ ~moved
    /\ "id" \in DOMAIN builder
    /\ builder' = WithSlot(builder, "id", s)
    /\ UNCHANGED <<moved, result, clock>>
    /\ Idle

Builder_time(s) ==
    /\ ~moved
    /\ "time" \in DOMAIN builder
    /\ builder' = WithSlot(builder, "time", s)
    /\ UNCHANGED <<moved, result, clock>>
    /\ Idle

Builder_subject(s) ==
    /\ ~moved
    /\ "subject" \in DOMAIN builder
    /\ builder' = WithSlot(builder, "subject", s)
    /\ UNCHANGED <<moved, result, clock>>
    /\ Idle

Builder_dataschema(s) ==
    /\ ~moved
    /\ "dataschema" \in DOMAIN builder
    /\ builder' = WithSlot(builder, "dataschema", s)
    /\ UNCHANGED <<moved, result, clock>>
    /\ Idle

Builder_datacontenttype(s) ==
    /\ ~moved
    /\ "datacontenttype" \in DOMAIN builder
    /\ builder' = WithSlot(builder, "datacontenttype", s)
    /\ UNCHANGED <<moved, result, clock>>
    /\ Idle

Builder_schemaurl(s) ==
    /\ ~moved
    /\ "schemaurl" \in DOMAIN builder
    /\ builder' = WithSlot(builder, "schemaurl", s)
    /\ UNCHANGED <<moved, result, clock>>
    /\ Idle

Builder_contenttype(s) ==
    /\ ~moved
    /\ "contenttype" \in DOMAIN builder
    /\ builder' = WithSlot(builder, "contenttype", s)
    /\ UNCHANGED <<moved, result, clock>>
    /\ Idle

Builder_data(d) ==
    /\ ~moved
    /\ "data" \in DOMAIN builder
    /\ builder' = WithSlot(builder, "data", d)
    /\ UNCHANGED <<moved, result, clock>>
    /\ Idle

Builder_extensions(e) ==
    /\ ~moved
    /\ "extensions" \in DOMAIN builder
    /\ builder' = WithSlot(builder, "extensions", e)
    /\ UNCHANGED <<moved, result, clock>>
    /\ Idle

V1_0_build ==
    /\ ~moved
    /\ builder.kind = "V1_0"
    /\ \E tz \in LocalOffsets : result' = BuildV1_0(builder, Now(clock, tz))
    /\ moved' = TRUE
    /\ UNCHANGED <<builder, clock>>
    /\ Idle

V0_2_build ==
    /\ ~moved
    /\ builder.kind = "V0_2"
    /\ result' = BuildV0_2(builder)
    /\ moved' = TRUE
    /\ UNCHANGED <<builder, clock>>
    /\ Idle

\* The system clock advances.
Tick ==
    /\ clock < MaxClock
    /\ clock' = clock + 1
    /\ UNCHANGED <<builder, moved, result>>
    /\ Idle

\* serde_json::to_string(&event) of the envelope build() returned.
to_string ==
    /\ result.kind = "ok"
    /\ wire' = SerializeEvent(result.event)
    /\ sent' = result.event
    /\ target' = "none"
    /\ decoded' = NoResult
    /\ got' = NoField
    /\ UNCHANGED <<builder, moved, result, clock, made, args, macros, bytes, blob>>

\* A JSON document arrives from elsewhere.
Receive(doc) ==
    /\ wire' = doc
    /\ sent' = NoEvent
    /\ target' = "none"
    /\ decoded' = NoResult
    /\ got' = NoField
    /\ UNCHANGED <<builder, moved, result, clock, made, args, macros, bytes, blob>>

\* serde_json::from_str::<CloudEventV1_0>(wire)
from_str_V1_0 ==
    /\ wire # <<>>
    /\ target' = "CloudEventV1_0"
    /\ decoded' = DeserializeV1_0(wire)
    /\ got' = NoField
    /\ UNCHANGED <<builder, moved, result, clock, made, wire, sent, args, macros, bytes, blob>>

\* serde_json::from_str::<CloudEventV0_2>(wire)
from_str_V0_2 ==
    /\ wire # <<>>
    /\ target' = "CloudEventV0_2"
    /\ decoded' = DeserializeV0_2(wire)
    /\ got' = NoField
    /\ UNCHANGED <<builder, moved, result, clock, made, wire, sent, args, macros, bytes, blob>>

\* serde_json::from_str::<CloudEvent>(wire)
from_str_CloudEvent ==
    /\ wire # <<>>
    /\ target' = "CloudEvent"
    /\ decoded' = DeserializeCloudEvent(wire)
    /\ got' = NoField
    /\ UNCHANGED <<builder, moved, result, clock, made, wire, sent, args, macros, bytes, blob>>

\* CloudEventV1_0::new called directly.
V1_0_new(src, dataschema) ==
    /\ made' = CloudEventV1_0_new(S("test type"), src, S("id"), None, None, dataschema,
                                  None, None, None)
    /\ UNCHANGED <<builder, moved, result, clock, wire, sent, target, decoded,
                   got, args, macros, bytes, blob>>

\* CloudEventV0_2::new called directly.
V0_2_new(src, schemaurl) ==
    /\ made' = CloudEventV0_2_new(S("test type"), src, S("id"), None, schemaurl, None,
                                  None, None)
    /\ UNCHANGED <<builder, moved, result, clock, wire, sent, target, decoded,
                   got, args, macros, bytes, blob>>

\* get_event_field!(event, value) on the wrapper a decoding returned.  The
\* wrapper is matched by reference.
get_event_field(value) ==
    /\ target = "CloudEvent"
    /\ decoded.kind = "ok"
    /\ got' = [field |-> value, of |-> decoded.event,
               value |-> Macro_get_event_field(decoded.event, value)]
    /\ UNCHANGED <<builder, moved, result, clock, made, wire, sent, target, decoded,
                   args, macros, bytes, blob>>

\* ------------------------------------------------- construction macros

\* The builder slot a setter of that name stores into.
SlotOf(name) == IF name = "event_id" THEN "id" ELSE name

\* $( .$name($value) )* : the setters in the written order.
RECURSIVE ApplyFields(_, _)
ApplyFields(b, fields) ==
    IF fields = <<>> THEN b
    ELSE ApplyFields(WithSlot(b, SlotOf(Head(fields)[1]), Head(fields)[2]), Tail(fields))

\* cloudevent_v1_0!( name: value, ... )
Macro_cloudevent_v1_0(fields, now) ==
    BuildV1_0(ApplyFields(CloudEventV1_0Builder_default, fields), now)

\* cloudevent_v0_2!( name: value, ... )
Macro_cloudevent_v0_2(fields) ==
    BuildV0_2(ApplyFields(CloudEventV0_2Builder_default, fields))

\* Mutant: the envelope is wrapped in the other variant.
Macro_cloudevent_AsV0_2(fields, now) ==
    LET r == Macro_cloudevent_v1_0(fields, now)
    IN  IF r.kind = "ok" THEN Ok(CloudEvent_V0_2(r.event)) ELSE r

\* cloudevent!( name: value, ... ):
\* cloudevent_v1_0!(...).and_then(|event| Ok(CloudEvent::V1_0(event)))
Macro_cloudevent(fields, now) ==
    LET r == Macro_cloudevent_v1_0(fields, now)
    IN  IF r.kind = "ok" THEN Ok(CloudEvent_V1_0(r.event)) ELSE r

NoMacros == [cloudevent_v1_0 |-> NoResult, cloudevent_v0_2 |-> NoResult, cloudevent |-> NoResult]

\* Every name written is a setter of the builder (the call compiles).
Compiles(fields, b) == \A i \in 1..Len(fields) : SlotOf(fields[i][1]) \in DOMAIN b

MacroFrame ==
    UNCHANGED <<builder, moved, result, clock, made, wire, sent, target, decoded,
                got, args, bytes, blob>>

cloudevent_v1_0 ==
    /\ args # <<>>
    /\ Compiles(args, CloudEventV1_0Builder_default)
    /\ \E tz \in LocalOffsets :
          macros' = [macros EXCEPT !.cloudevent_v1_0 = Macro_cloudevent_v1_0(args, Now(clock, tz))]
    /\ MacroFrame

cloudevent_v0_2 ==
    /\ args # <<>>
    /\ Compiles(args, CloudEventV0_2Builder_default)
    /\ macros' = [macros EXCEPT !.cloudevent_v0_2 = Macro_cloudevent_v0_2(args)]
    /\ MacroFrame

cloudevent ==
    /\ args # <<>>
    /\ Compiles(args, CloudEventV1_0Builder_default)
    /\ \E tz \in LocalOffsets :
          macros' = [macros EXCEPT !.cloudevent = Macro_cloudevent(args, Now(clock, tz))]
    /\ MacroFrame

\* --------------------------------------------------------- binary payload

from_binary ==
    /\ blob' = Data_from_binary(bytes)
    /\ UNCHANGED <<builder, moved, result, clock, made, wire, sent, target, decoded,
                   got, args, macros, bytes>>

\* ------------------------------------------------------- specification

Init ==
    /\ builder \in {CloudEventV1_0Builder_default, CloudEventV0_2Builder_default}
    /\ moved = FALSE
    /\ result = NoResult
    /\ clock = 0
    /\ made = NoEvent
    /\ wire = <<>>
    /\ sent = NoEvent
    /\ target = "none"
    /\ decoded = NoResult
    /\ got = NoField
    /\ args = <<>>
    /\ macros = NoMacros
    /\ bytes = <<>>
    /\ blob = NoData

Next ==
    \/ CloudEventBuilder_default
    \/ CloudEventBuilder_v1_0
    \/ CloudEventBuilder_v0_2
    \/ \E s \in TypeInputs : Builder_event_type(s)
    \/ \E s \in SourceInputs : Builder_source(s)
    \/ \E s \in IdInputs : Builder_event_id(s)
    \/ \E s \in TimeInputs : Builder_time(s)
    \/ \E s \in SubjectInputs : Builder_subject(s)
    \/ \E s \in SchemaInputs : Builder_dataschema(s)
    \/ \E s \in ContentTypeInputs : Builder_datacontenttype(s)
    \/ \E s \in SchemaInputs : Builder_schemaurl(s)
    \/ \E s \in ContentTypeInputs : Builder_contenttype(s)
    \/ \E d \in DataInputs : Builder_data(d)
    \/ \E e \in ExtensionsInputs : Builder_extensions(e)
    \/ V1_0_build
    \/ V0_2_build
    \/ Tick

Spec == Init /\ [][Next]_vars

\* The encoding round trip: a builder of either version with its required
\* slots set, the optional setters, build(), to_string and from_str.
WithRequired(b, src) ==
    WithSlot(WithSlot(WithSlot(b, "event_type", S("test type")), "source", src), "id", S("id"))

InitCodec ==
    /\ builder \in {WithRequired(b, src) :
                       b \in {CloudEventV1_0Builder_default, CloudEventV0_2Builder_default},
                       src \in CodecSourceInputs}
    /\ moved = FALSE
    /\ result = NoResult
    /\ clock = 0
    /\ made = NoEvent
    /\ wire = <<>>
    /\ sent = NoEvent
    /\ target = "none"
    /\ decoded = NoResult
    /\ got = NoField
    /\ args = <<>>
    /\ macros = NoMacros
    /\ bytes = <<>>
    /\ blob = NoData

NextCodec ==
    \/ \E s \in CodecTimeInputs : Builder_time(s)
    \/ \E s \in SubjectInputs : Builder_subject(s)
    \/ \E s \in CodecSchemaInputs : Builder_dataschema(s)
    \/ \E s \in ContentTypeInputs : Builder_datacontenttype(s)
    \/ \E s \in CodecSchemaInputs : Builder_schemaurl(s)
    \/ \E s \in ContentTypeInputs : Builder_contenttype(s)
    \/ \E d \in CodecDataInputs : Builder_data(d)
    \/ \E e \in CodecExtensionsInputs : Builder_extensions(e)
    \/ V1_0_build
    \/ V0_2_build
    \/ to_string
    \/ from_str_V1_0
    \/ from_str_V0_2
    \/ from_str_CloudEvent

SpecCodec == InitCodec /\ [][NextCodec]_vars

\* Envelopes obtained without a builder: new() and the decoding of foreign
\* JSON documents.
NextDecode ==
    \/ \E doc \in Payloads : Receive(doc)
    \/ from_str_V1_0
    \/ from_str_V0_2
    \/ from_str_CloudEvent
    \/ \E value \in CommonFields : get_event_field(value)
    \/ \E src \in NewSourceInputs, sch \in NewSchemaInputs : V1_0_new(src, sch)
    \/ \E src \in NewSourceInputs, sch \in NewSchemaInputs : V0_2_new(src, sch)

InitDecode == Init /\ builder = CloudEventV1_0Builder_default

SpecDecode == InitDecode /\ [][NextDecode]_vars

\* The construction macros, each applied to a written list of field
\* assignments.
InitMacro ==
    /\ builder = DefaultCloudEventBuilder
    /\ moved = FALSE
    /\ result = NoResult
    /\ clock = 0
    /\ made = NoEvent
    /\ wire = <<>>
    /\ sent = NoEvent
    /\ target = "none"
    /\ decoded = NoResult
    /\ got = NoField
    /\ args \in FieldLists(MacroFieldsV1_0) \cup FieldLists(MacroFieldsV0_2)
    /\ macros = NoMacros
    /\ bytes = <<>>
    /\ blob = NoData

NextMacro ==
    \/ cloudevent_v1_0
    \/ cloudevent_v0_2
    \/ cloudevent

SpecMacro == InitMacro /\ [][NextMacro]_vars

\* Data::from_binary applied to a byte sequence.
InitBinary ==
    /\ builder = DefaultCloudEventBuilder
    /\ moved = FALSE
    /\ result = NoResult
    /\ clock = 0
    /\ made = NoEvent
    /\ wire = <<>>
    /\ sent = NoEvent
    /\ target = "none"
    /\ decoded = NoResult
    /\ got = NoField
    /\ args = <<>>
    /\ macros = NoMacros
    /\ bytes \in ByteSeqs
    /\ blob = NoData

NextBinary == from_binary

SpecBinary == InitBinary /\ [][NextBinary]_vars

\* ------------------------------------------------------------------ claims

\* What the claims say of a string given as source or schema reference.
IsUriReference(s) == UrlParse(s).ok \/ UrlParse(s).err = "RelativeUrlWithoutBase"
IsRfc3339(s) == ParseRfc3339(s).ok

\* The schema slot of the builder and the schema field of its envelope.
SchemaSlot(b) == IF b.kind = "V1_0" THEN b.dataschema ELSE b.schemaurl
SchemaOf(e) == IF IsV1_0(e) THEN Get_dataschema(e) ELSE Get_schema_url(e)
ContentTypeSlot(b) == IF b.kind = "V1_0" THEN b.datacontenttype ELSE b.contenttype
ContentTypeOf(e) == IF IsV1_0(e) THEN Get_datacontenttype(e) ELSE Get_contenttype(e)

RequiredValid(b) ==
    /\ b.event_type.some
    /\ b.source.some /\ IsUriReference(b.source.v)
    /\ b.id.some

\* The time slot holds nothing that fails the build.
TimePasses(b) ==
    \/ ~b.time.some
    \/ IsRfc3339(b.time.v)
    \/ b.kind = "V1_0" /\ b.time.v = S("now")

SchemaPasses(b) == ~SchemaSlot(b).some \/ IsUriReference(SchemaSlot(b).v)

MissingField(name) == Err(<<name, "is required">>)

\* C1: with event type, source and id set to valid values and every optional
\* slot either unset or set to a valid value (an RFC3339 string for time),
\* build() succeeds, every accessor returns the value held by its slot
\* (time: the timestamp parsed from the string) and an unset slot reads None.
C1_IdentityLaw ==
    (/\ moved
     /\ RequiredValid(builder)
     /\ ~builder.time.some \/ IsRfc3339(builder.time.v)
     /\ SchemaPasses(builder))
    => /\ result.kind = "ok"
       /\ LET e == result.event
          IN  /\ IsV1_0(e) <=> builder.kind = "V1_0"
              /\ Get_event_type(e) = builder.event_type.v
              /\ Get_source(e) = builder.source.v
              /\ Get_event_id(e) = builder.id.v
              /\ Get_event_time(e).some <=> builder.time.some
              /\ builder.time.some =>
                    Get_event_time(e).v = ParseRfc3339(builder.time.v).time
              /\ SchemaOf(e) = SchemaSlot(builder)
              /\ ContentTypeOf(e) = ContentTypeSlot(builder)
              /\ IsV1_0(e) => Get_subject(e) = builder.subject
              /\ Get_data(e) = builder.data
              /\ Get_extensions(e) = builder.extensions

C1_Witness ==
    /\ moved
    /\ result.kind = "ok"
    /\ builder.source = Some(AbsSource)
    /\ builder.time = Some(EastTime)
    /\ SchemaSlot(builder) = Some(RelSchema)
    /\ ~builder.data.some
    /\ builder.extensions.some

\* C2 as stated: a builder with event type, source or id never set fails
\* with the missing-field error of the first of them that is missing.
C2_MissingFieldAlways ==
    (moved /\ ~(builder.event_type.some /\ builder.source.some /\ builder.id.some))
    => result = MissingField(IF ~builder.event_type.some THEN "Event type"
                             ELSE IF ~builder.source.some THEN "Source"
                             ELSE "Event id")

\* C2 amended: a missing event type always gives its missing-field error, a
\* missing source gives its error when the event type is set, and a missing
\* id gives its error when the event type is set and the source is set to a
\* URI reference (a malformed source is reported before the missing id).
C2_MissingFieldInOrder ==
    moved =>
        /\ ~builder.event_type.some => result = MissingField("Event type")
        /\ (builder.event_type.some /\ ~builder.source.some)
              => result = MissingField("Source")
        /\ (/\ builder.event_type.some
            /\ builder.source.some /\ IsUriReference(builder.source.v)
            /\ ~builder.id.some)
              => result = MissingField("Event id")
        /\ (/\ builder.event_type.some
            /\ builder.source.some /\ ~IsUriReference(builder.source.v)
            /\ ~builder.id.some)
              => result = Err(ParseErrorText(UrlParse(builder.source.v).err))

C2_Witness ==
    /\ moved
    /\ builder.event_type.some
    /\ builder.source = Some(RelSource)
    /\ ~builder.id.some
    /\ builder.time = Some(S("not-a-date"))
    /\ result = MissingField("Event id")

\* The error of each format check.
SourceError(b) == Err(ParseErrorText(UrlParse(b.source.v).err))
TimeError(b) == Err(ChronoErrorText(ParseRfc3339(b.time.v).err))
SchemaError(b) == Err(ParseErrorText(UrlParse(SchemaSlot(b).v).err))

\* C3: build() returns the error of the first failing check in the order
\* event-type presence, source presence, source format, id presence, time
\* format, schema format, whatever the later slots hold, and succeeds when
\* no check fails.
C3_FirstFailureWins ==
    moved =>
        LET b == builder
            typeOk == b.event_type.some
            srcOk == typeOk /\ b.source.some /\ IsUriReference(b.source.v)
            idOk == srcOk /\ b.id.some
            timeOk == idOk /\ TimePasses(b)
        IN  /\ ~typeOk => result = MissingField("Event type")
            /\ (typeOk /\ ~b.source.some) => result = MissingField("Source")
            /\ (typeOk /\ b.source.some /\ ~IsUriReference(b.source.v))
                  => result = SourceError(b)
            /\ (srcOk /\ ~b.id.some) => result = MissingField("Event id")
            /\ (idOk /\ ~TimePasses(b)) => result = TimeError(b)
            /\ (timeOk /\ ~SchemaPasses(b)) => result = SchemaError(b)
            /\ (timeOk /\ SchemaPasses(b)) => result.kind = "ok"

C3_Witness ==
    /\ moved
    /\ builder.event_type.some
    /\ builder.source = Some(BadIpv6Uri)
    /\ ~builder.id.some
    /\ builder.time = Some(S("not-a-date"))
    /\ SchemaSlot(builder) = Some(NoHostUri)
    /\ result = Err(S("invalid IPv6 address"))

\* C4: with event type and id set, a source that parses as an absolute URI
\* or fails only with RelativeUrlWithoutBase passes the source check (the
\* build succeeds when time and schema pass too, and an error can only come
\* from those) and is stored as given; any other source fails the build with
\* the text of its parse error, and there is no envelope.
C4_SourceAcceptance ==
    (moved /\ builder.event_type.some /\ builder.id.some /\ builder.source.some)
    => LET s == builder.source.v
       IN  /\ (IsUriReference(s) /\ TimePasses(builder) /\ SchemaPasses(builder))
                 => result.kind = "ok"
           /\ (IsUriReference(s) /\ result.kind = "err")
                 => \/ ~TimePasses(builder) /\ result = TimeError(builder)
                    \/ ~SchemaPasses(builder) /\ result = SchemaError(builder)
           /\ result.kind = "ok" => IsUriReference(s) /\ Get_source(result.event) = s
           /\ ~IsUriReference(s) => result = SourceError(builder)

C4_Witness ==
    /\ moved
    /\ builder.source = Some(AbsSource)
    /\ UrlParse(AbsSource).ok
    /\ UrlParse(AbsSource).url # AbsSource
    /\ result.kind = "ok"
    /\ Get_source(result.event) = AbsSource

\* Words by which an error message would name a field.
FieldWords(f) ==
    CASE f = "source" -> {"source", "Source"}
      [] f = "time" -> {"time", "Time"}
      [] f = "schema" -> {"schema", "Schema", "dataschema", "schemaurl"}

NamesField(msg, f) == \E i \in 1..Len(msg) : msg[i] \in FieldWords(f)

\* The format check that fails the build, "none" when it is no format check.
FailingFormat(b) ==
    IF ~b.event_type.some \/ ~b.source.some THEN "none"
    ELSE IF ~IsUriReference(b.source.v) THEN "source"
    ELSE IF ~b.id.some THEN "none"
    ELSE IF ~TimePasses(b) THEN "time"
    ELSE IF ~SchemaPasses(b) THEN "schema"
    ELSE "none"

\* C5: the error of a build that fails on a malformed source, time or schema
\* reference names the failing field.
C5_InvalidFieldNamesField ==
    (moved /\ FailingFormat(builder) # "none")
    => /\ result.kind = "err"
       /\ NamesField(result.msg, FailingFormat(builder))

\* The envelope a successful decoding holds, unwrapped.
DecodedEvent == IF target = "CloudEvent" THEN decoded.event.inner ELSE decoded.event
TypeName(e) == IF IsV1_0(e) THEN "CloudEventV1_0" ELSE "CloudEventV0_2"

\* What build() checks of the fields of an envelope.
PassesValidation(e) ==
    /\ IsUriReference(e.source)
    /\ SchemaOf(e).some => IsUriReference(SchemaOf(e).v)

\* C6: every envelope obtained from build(), from new() or from decoding a
\* JSON document, as a concrete envelope or as the wrapper, has a source
\* and, if present, a schema reference that build() would accept.
C6_EveryEnvelopeValidated ==
    /\ result.kind = "ok" => PassesValidation(result.event)
    /\ made # NoEvent => PassesValidation(made)
    /\ decoded.kind = "ok" => PassesValidation(DecodedEvent)

VersionOf(e) == IF IsV1_0(e) THEN S("1.0") ELSE S("0.2")

\* C7: every V1.0 envelope has specversion "1.0" and every V0.2 envelope
\* has specversion "0.2", whether it came from build(), new() or decoding.
C7_SpecversionFixed ==
    /\ result.kind = "ok" => result.event.specversion = VersionOf(result.event)
    /\ made # NoEvent => made.specversion = VersionOf(made)
    /\ decoded.kind = "ok" => DecodedEvent.specversion = VersionOf(DecodedEvent)

\* The encoding of wire was decoded as the type of the envelope encoded.
DecodedAsSent == sent # NoEvent /\ decoded # NoResult /\ target = TypeName(sent)

\* C8 as stated: decoding the encoding of a built envelope as its own type
\* yields an equal envelope, whatever its data and extensions.
C8_RoundTrip ==
    DecodedAsSent => decoded.kind = "ok" /\ EventEq(decoded.event, sent)

\* An envelope without a structured string or structured null as data and
\* without a structured string as an extension value.
IsStructured(x, kinds) == x.tag = "Object" /\ x.j.t \in kinds
NoAmbiguousScalar(e) ==
    /\ e.data.some => ~IsStructured(e.data.v, {"str", "null"})
    /\ e.extensions.some =>
          \A k \in DOMAIN e.extensions.v : ~IsStructured(e.extensions.v[k], {"str"})

\* C8 amended: the round trip holds for every built envelope whose data is
\* not a structured string or structured null and whose extension values
\* are not structured strings.
C8_RoundTripUnambiguous ==
    (DecodedAsSent /\ NoAmbiguousScalar(sent))
    => decoded.kind = "ok" /\ EventEq(decoded.event, sent)

C8_Witness ==
    /\ DecodedAsSent
    /\ IsV0_2(sent)
    /\ sent.time.some /\ sent.time.v.off = 1
    /\ sent.schemaurl.some
    /\ sent.data.some /\ IsStructured(sent.data.v, {"arr"})
    /\ sent.extensions.some /\ Cardinality(DOMAIN sent.extensions.v) = 2
    /\ decoded.kind = "ok"
    /\ EventEq(decoded.event, sent)

\* C9: decoding the encoding of a built envelope through the wrapper gives
\* the variant of the builder's version, holding an equal envelope.  (Stated
\* for the envelopes whose round trip on the concrete type holds.)
C9_WrapperKeepsVersion ==
    (sent # NoEvent /\ target = "CloudEvent" /\ NoAmbiguousScalar(sent))
    => /\ decoded.kind = "ok"
       /\ decoded.event.variant = (IF IsV1_0(sent) THEN "V1_0" ELSE "V0_2")
       /\ EventEq(decoded.event.inner, sent)

StructuredKinds == {"num", "bool", "arr", "obj"}

\* C10: in every successful decoding a JSON string in the place of a Data or
\* an ExtensionValue is decoded to the text variant and a number, boolean,
\* array or object to the structured variant holding it; a structured
\* number, boolean, array or object of an encoded envelope is decoded to an
\* equal value.
C10_UntaggedScalars ==
    decoded.kind = "ok" =>
        LET e == DecodedEvent
        IN  /\ Has(wire, "data") =>
                 LET j == Val(wire, "data")
                 IN  /\ j.t = "str" => e.data = Some(Data_StringOrBinary(j.s))
                     /\ j.t \in StructuredKinds => e.data = Some(Data_Object(j))
            /\ Has(wire, "extensions") =>
                 \A k \in DOMAIN Val(wire, "extensions").o :
                     LET j == Val(wire, "extensions").o[k]
                     IN  /\ j.t = "str" => e.extensions.v[k] = ExtensionValue_String(j.s)
                         /\ j.t \in StructuredKinds =>
                               e.extensions.v[k] = ExtensionValue_Object(j)
            /\ (sent # NoEvent /\ sent.data.some /\ IsStructured(sent.data.v, StructuredKinds))
                  => e.data = sent.data
            /\ (sent # NoEvent /\ sent.extensions.some) =>
                  \A k \in DOMAIN sent.extensions.v :
                      IsStructured(sent.extensions.v[k], StructuredKinds)
                         => e.extensions.v[k] = sent.extensions.v[k]

C10_Witness ==
    /\ decoded.kind = "ok"
    /\ sent # NoEvent
    /\ sent.data = Some(StructuredString)
    /\ DecodedEvent.data = Some(Data_from_string(S("test")))
    /\ sent.extensions.some
    /\ "n" \in DOMAIN sent.extensions.v
    /\ DecodedEvent.extensions.v["n"] = ExtensionValue_Object(JBool(FALSE))

\* The keys of a JSON document, in the order written.
Keys(doc) == [i \in 1..Len(doc) |-> doc[i][1]]

\* The keys of the attributes of each version, in the order the claim gives.
KeyOrderV1_0 ==
    <<"type", "specversion", "source", "id", "time", "subject", "dataschema",
      "datacontenttype", "data">>
KeyOrderV0_2 ==
    <<"type", "specversion", "source", "id", "time", "schemaurl", "contenttype", "data">>
KeyOrder(e) == IF IsV1_0(e) THEN KeyOrderV1_0 ELSE KeyOrderV0_2

\* Whether the attribute encoded under key k is present in envelope e.
Present(e, k) ==
    CASE k \in Range(RequiredKeys) -> TRUE
      [] k = "time" -> Get_event_time(e).some
      [] k = "subject" -> Get_subject(e).some
      [] k \in {"dataschema", "schemaurl"} -> SchemaOf(e).some
      [] k \in {"datacontenttype", "contenttype"} -> ContentTypeOf(e).some
      [] k = "data" -> Get_data(e).some

IsAttributeKey(k) == k # "extensions"

\* C11: the encoding of an envelope has the keys type, specversion, source
\* and id always and the key of an optional attribute exactly when the
\* attribute is present, each once and in the order type, specversion,
\* source, id, time, subject, schema, content type, data; no key of an
\* absent attribute is written, so none is written as null.
C11_KeysPresentInOrder ==
    sent # NoEvent =>
        /\ SelectSeq(Keys(wire), IsAttributeKey)
              = SelectSeq(KeyOrder(sent), LAMBDA k : Present(sent, k))
        /\ \A i \in 1..Len(wire) :
              wire[i][2] = JNull => wire[i][1] = "data" /\ Get_data(sent) = Some(StructuredNull)

C11_Witness ==
    /\ sent # NoEvent
    /\ IsV0_2(sent)
    /\ ~Get_event_time(sent).some
    /\ ~Get_schema_url(sent).some
    /\ Get_contenttype(sent).some
    /\ Get_data(sent).some
    /\ Keys(wire) = <<"type", "specversion", "source", "id", "contenttype", "data">>

\* The keys that are fields of the envelope type a document was decoded as.
FieldKeys(e) == DOMAIN (IF IsV1_0(e) THEN FieldsV1_0 ELSE FieldsV0_2)

\* C12: every key of the extensions map of an encoded envelope is a
\* top-level member of the document, holding the encoding of its value, and
\* decoding puts the top-level members that are no attribute into the
\* extensions map.
C12_ExtensionsFlattened ==
    /\ (sent # NoEvent /\ Get_extensions(sent).some) =>
          \A k \in DOMAIN Get_extensions(sent).v :
              /\ Has(wire, k)
              /\ Val(wire, k) = ExtensionValue_serialize(Get_extensions(sent).v[k])
    /\ decoded.kind = "ok" =>
          \A i \in 1..Len(wire) :
              wire[i][1] \notin (FieldKeys(DecodedEvent) \ {"extensions"}) =>
                  /\ Get_extensions(DecodedEvent).some
                  /\ wire[i][1] \in DOMAIN Get_extensions(DecodedEvent).v

\* The messages of chrono's parse errors.
IsTimeError(r) ==
    /\ r.kind = "err"
    /\ r.msg \in {ChronoErrorText(e) : e \in {"TooShort", "Invalid", "OutOfRange", "TooLong"}}

\* C13: with event type, source and id valid, a time that is neither an
\* RFC3339 string nor (on v1.0) "now" fails the build with chrono's parse
\* error and there is no envelope; an RFC3339 time is stored as the parsed
\* timestamp (the build succeeding when the schema reference passes too).
C13_TimeFormat ==
    (moved /\ RequiredValid(builder) /\ builder.time.some)
    => LET t == builder.time.v
       IN  /\ ~TimePasses(builder) => IsTimeError(result) /\ result = TimeError(builder)
           /\ (IsRfc3339(t) /\ SchemaPasses(builder))
                 => /\ result.kind = "ok"
                    /\ Get_event_time(result.event) = Some(ParseRfc3339(t).time)
           /\ (IsRfc3339(t) /\ result.kind = "err") => result = SchemaError(builder)

C13_Witness ==
    /\ moved
    /\ builder.kind = "V0_2"
    /\ RequiredValid(builder)
    /\ builder.time = Some(S("not-a-date"))
    /\ result = Err(S("input contains invalid characters"))

\* The instant the system clock shows when it reads c.
ClockReading(c) == 24 + c

\* C14: a build() step of a v1.0 builder with event type, source and id valid,
\* the schema reference absent or valid and the time slot holding "now"
\* succeeds, and the time of the envelope is the reading of the clock at
\* that step, whenever the slot was set.
C14_NowReadsClockAtBuild ==
    [][(/\ ~moved /\ moved'
        /\ builder.kind = "V1_0"
        /\ RequiredValid(builder)
        /\ SchemaPasses(builder)
        /\ builder.time = Some(S("now")))
       => /\ result'.kind = "ok"
          /\ Get_event_time(result'.event).some
          /\ Get_event_time(result'.event).v.utc = ClockReading(clock)]_vars

\* An envelope built from "now" after the clock had advanced.
C14_Witness ==
    /\ moved
    /\ builder.kind = "V1_0"
    /\ builder.time = Some(S("now"))
    /\ result.kind = "ok"
    /\ clock = 1
    /\ Get_event_time(result.event).v.utc = ClockReading(1)
    /\ Get_event_time(result.event).v.off = -1

\* C15: with event type, source, id and time passing, a schema reference
\* that is an absolute URI or fails to parse only as a relative reference is
\* accepted and stored as given; any other fails the build with its parse
\* error; with no schema reference set the build succeeds and the envelope
\* has none.
C15_SchemaRule ==
    (moved /\ RequiredValid(builder) /\ TimePasses(builder))
    => LET s == SchemaSlot(builder)
       IN  /\ (s.some /\ IsUriReference(s.v))
                 => result.kind = "ok" /\ SchemaOf(result.event) = Some(s.v)
           /\ (s.some /\ ~IsUriReference(s.v))
                 => result = Err(ParseErrorText(UrlParse(s.v).err))
           /\ ~s.some => result.kind = "ok" /\ SchemaOf(result.event) = None

C15_Witness ==
    /\ moved
    /\ builder.kind = "V1_0"
    /\ SchemaSlot(builder) = Some(AbsSource)
    /\ UrlParse(AbsSource).url # AbsSource
    /\ result.kind = "ok"
    /\ SchemaOf(result.event) = Some(AbsSource)

\* C17: no envelope build() returns has an empty event type.
C17_EventTypeNotEmpty ==
    result.kind = "ok" => Get_event_type(result.event) # <<>>

\* The last assignment to a slot in a list of field assignments.
Assigned(fields, slot) == {i \in 1..Len(fields) : SlotOf(fields[i][1]) = slot}
LastAssigned(fields, slot) ==
    CHOOSE i \in Assigned(fields, slot) : \A j \in Assigned(fields, slot) : j <= i

\* The builder whose every slot holds the last value assigned to it.
LastValues(fresh, fields) ==
    [slot \in DOMAIN fresh |->
        IF slot = "kind" THEN fresh.kind
        ELSE IF Assigned(fields, slot) = {} THEN None
        ELSE Some(fields[LastAssigned(fields, slot)][2])]

C18_ShorthandIsV1_0 ==
    /\ DefaultCloudEventBuilder = CloudEventV1_0Builder_default
    /\ (macros.cloudevent # NoResult /\ macros.cloudevent_v1_0 # NoResult) =>
          /\ macros.cloudevent.kind = macros.cloudevent_v1_0.kind
          /\ macros.cloudevent.kind = "ok" =>
                /\ macros.cloudevent.event.variant = "V1_0"
                /\ macros.cloudevent.event.inner = macros.cloudevent_v1_0.event
          /\ macros.cloudevent.kind = "err" => macros.cloudevent = macros.cloudevent_v1_0
    /\ macros.cloudevent.kind = "ok" => macros.cloudevent.event.variant # "V0_2"

C18_Witness ==
    /\ macros.cloudevent.kind = "ok"
    /\ macros.cloudevent_v1_0.kind = "ok"
    /\ Len(args) = 4
    /\ args[2] = <<"dataschema", RelSchema>>
    /\ Get_dataschema(macros.cloudevent.event.inner) = Some(RelSchema)

\* C19: get_event_field!(wrapper, field) returns what the accessor of that
\* name returns on the wrapped envelope, for either variant and each of
\* the six common fields, and the wrapper is as it was.
C19_FieldDispatch ==
    got # NoField =>
        /\ decoded.kind = "ok"
        /\ decoded.event = got.of
        /\ LET e == got.of.inner
           IN  /\ got.field = "event_type" => got.value = Get_event_type(e)
               /\ got.field = "source" => got.value = Get_source(e)
               /\ got.field = "event_id" => got.value = Get_event_id(e)
               /\ got.field = "event_time" => got.value = Get_event_time(e)
               /\ got.field = "data" => got.value = Get_data(e)
               /\ got.field = "extensions" => got.value = Get_extensions(e)

C19_Witness ==
    /\ got # NoField
    /\ got.of.variant = "V0_2"
    /\ got.field = "event_id"
    /\ got.value = S("id")
    /\ Get_source(got.of.inner) # S("id")

\* Strict decoding of padded standard base64.
Base64Value(c) == IndexOf(Base64Alphabet, c) - 1
Base64Bad == [ok |-> FALSE, bytes |-> <<>>]
RECURSIVE Base64Decode(_)
Base64Decode(s) ==
    IF Len(s) = 0 THEN [ok |-> TRUE, bytes |-> <<>>]
    ELSE IF Len(s) < 4 THEN Base64Bad
    ELSE LET g == SubSeq(s, 1, 4)
             rest == SubSeq(s, 5, Len(s))
             pad == IF g[3] = "=" THEN 2 ELSE IF g[4] = "=" THEN 1 ELSE 0
             valid == /\ \A i \in 1..(4 - pad) : g[i] \in Range(Base64Alphabet)
                      /\ pad = 2 => g[4] = "="
                      /\ pad > 0 => rest = <<>>
             v(i) == IF i <= 4 - pad THEN Base64Value(g[i]) ELSE 0
             n == v(1) * 262144 + v(2) * 4096 + v(3) * 64 + v(4)
             three == <<n \div 65536, (n \div 256) % 256, n % 256>>
         IN  IF ~valid THEN Base64Bad
             ELSE IF ~Base64Decode(rest).ok THEN Base64Bad
             ELSE [ok |-> TRUE, bytes |-> SubSeq(three, 1, 3 - pad) \o Base64Decode(rest).bytes]

\* C20: Data::from_binary(b) is the text variant holding four characters of
\* the standard alphabet or "=" for every three bytes begun (none for the
\* empty sequence), and decoding that text gives b.
C20_BinaryRoundTrip ==
    blob # NoData =>
        /\ blob.tag = "StringOrBinary"
        /\ Len(blob.s) = 4 * ((Len(bytes) + 2) \div 3)
        /\ \A i \in 1..Len(blob.s) : blob.s[i] \in Range(Base64Alphabet) \cup {"="}
        /\ Base64Decode(blob.s) = [ok |-> TRUE, bytes |-> bytes]

C20_Witness ==
    /\ bytes = <<118, 97>>
    /\ blob = Data_StringOrBinary(<<"d", "m", "E", "=">>)
    /\ Base64Decode(blob.s).bytes = <<118, 97>>

\* C21: on a v0.2 builder with event type, source and id valid, the time
\* "now" fails the build with chrono's parse error and there is no envelope;
\* on a v1.0 builder in the same situation (schema reference passing) the
\* build succeeds with a time.
C21_NowOnlyOnV1_0 ==
    (moved /\ RequiredValid(builder) /\ builder.time = Some(S("now")))
    => /\ builder.kind = "V0_2" =>
             /\ IsTimeError(result)
             /\ result = Err(ChronoErrorText(ParseRfc3339(S("now")).err))
       /\ (builder.kind = "V1_0" /\ SchemaPasses(builder)) =>
             result.kind = "ok" /\ Get_event_time(result.event).some

C21_Witness ==
    /\ moved
    /\ builder.kind = "V0_2"
    /\ RequiredValid(builder)
    /\ builder.time = Some(S("now"))
    /\ SchemaPasses(builder)
    /\ result.kind = "err"

\* The builder with content type, subject, data and extensions unset.
Unvalidated == {"subject", "datacontenttype", "contenttype", "data", "extensions"}
Stripped(b) == [slot \in DOMAIN b |-> IF slot \in Unvalidated THEN None ELSE b[slot]]

\* build() of either version.
BuildOf(b, now) == IF b.kind = "V1_0" THEN BuildV1_0(b, now) ELSE BuildV0_2(b)

\* C22: the build of a builder succeeds exactly when the build of the
\* builder with the same event type, source, id, time and schema reference
\* and no content type, subject, data or extensions succeeds, and fails
\* with the same error; on success those four fields of the envelope are
\* the slots of the builder.
C22_UnvalidatedFields ==
    moved =>
        LET bare == BuildOf(Stripped(builder), Now(clock, 0))
        IN  /\ result.kind = bare.kind
            /\ result.kind = "err" => result = bare
            /\ result.kind = "ok" =>
                  /\ ContentTypeOf(result.event) = ContentTypeSlot(builder)
                  /\ IsV1_0(result.event) => Get_subject(result.event) = builder.subject
                  /\ Get_data(result.event) = builder.data
                  /\ Get_extensions(result.event) = builder.extensions

C22_Witness ==
    /\ moved
    /\ builder.kind = "V1_0"
    /\ builder.subject.some
    /\ builder.datacontenttype.some
    /\ builder.data = Some(Data_from_serializable(JNum(1)))
    /\ builder.extensions.some
    /\ result.kind = "ok"
    /\ Get_subject(result.event) = Some(S("me"))

\* A setter step stores v in its slot and keeps every other slot.
OnlySlot(slot, v) ==
    /\ builder'[slot] = Some(v)
    /\ \A other \in DOMAIN builder \ {slot} : builder'[other] = builder[other]
    /\ DOMAIN builder' = DOMAIN builder

\* C23: after the setter of field f is called with v, slot f holds v and
\* every other slot of the builder holds what it held before.
C23_SetterFrame ==
    [][/\ \A s \in TypeInputs : Builder_event_type(s) => OnlySlot("event_type", s)
       /\ \A s \in SourceInputs : Builder_source(s) => OnlySlot("source", s)
       /\ \A s \in IdInputs : Builder_event_id(s) => OnlySlot("id", s)
       /\ \A s \in TimeInputs : Builder_time(s) => OnlySlot("time", s)
       /\ \A s \in SubjectInputs : Builder_subject(s) => OnlySlot("subject", s)
       /\ \A s \in SchemaInputs : Builder_dataschema(s) => OnlySlot("dataschema", s)
       /\ \A s \in ContentTypeInputs :
             Builder_datacontenttype(s) => OnlySlot("datacontenttype", s)
       /\ \A s \in SchemaInputs : Builder_schemaurl(s) => OnlySlot("schemaurl", s)
       /\ \A s \in ContentTypeInputs : Builder_contenttype(s) => OnlySlot("contenttype", s)
       /\ \A d \in DataInputs : Builder_data(d) => OnlySlot("data", d)
       /\ \A e \in ExtensionsInputs : Builder_extensions(e) => OnlySlot("extensions", e)]_vars

\* A builder on which setters acted one after the other.
C23_Witness ==
    /\ ~moved
    /\ builder.kind = "V0_2"
    /\ builder.source = Some(NoHostUri)
    /\ builder.contenttype.some
    /\ builder.time = Some(S("not-a-date"))
    /\ builder.data.some
    /\ ~builder.id.some

\* Two results that differ at most in the time of the envelope.
SameButTime(r1, r2) ==
    /\ r1.kind = r2.kind
    /\ r1.kind = "err" => r1 = r2
    /\ r1.kind = "ok" => [r1.event EXCEPT !.time = None] = [r2.event EXCEPT !.time = None]

KeysOnce(doc) == \A i, j \in 1..Len(doc) : doc[i][1] = doc[j][1] => i = j
WellTypedV1_0(doc) ==
    /\ KeysOnce(doc)
    /\ \A k \in Range(RequiredKeys) : Has(doc, k) /\ Val(doc, k).t = "str"
    /\ Has(doc, "time") => Val(doc, "time").t = "str" /\ IsRfc3339(Val(doc, "time").s)
    /\ \A k \in {"subject", "dataschema", "datacontenttype"} :
          Has(doc, k) => Val(doc, k).t = "str"
    /\ Has(doc, "extensions") => Val(doc, "extensions").t = "obj"

\* C25: decoding through the wrapper gives the V1_0 variant for every
\* document the V1.0 shape fits, whatever its specversion and whether or not
\* it has the keys schemaurl and contenttype, which are dropped; the V0_2
\* variant is given only for a document the V1.0 shape does not fit.
C25_V1_0ShapeFirst ==
    (target = "CloudEvent" /\ decoded # NoResult) =>
        /\ WellTypedV1_0(wire) =>
              /\ decoded.kind = "ok"
              /\ decoded.event.variant = "V1_0"
              /\ IsV1_0(decoded.event.inner) /\ ~IsV0_2(decoded.event.inner)
              /\ decoded.event.inner.specversion = Val(wire, "specversion").s
              /\ Get_dataschema(decoded.event.inner).some = Has(wire, "dataschema")
              /\ Get_datacontenttype(decoded.event.inner).some = Has(wire, "datacontenttype")
        /\ (decoded.kind = "ok" /\ decoded.event.variant = "V0_2") =>
              /\ ~WellTypedV1_0(wire)
              /\ DeserializeV1_0(wire).kind = "err"

C25_Witness ==
    /\ target = "CloudEvent"
    /\ WellTypedV1_0(wire)
    /\ Val(wire, "specversion").s = S("0.2")
    /\ Has(wire, "schemaurl") /\ Has(wire, "contenttype")
    /\ ~Has(wire, "dataschema")
    /\ Has(wire, "time") /\ Has(wire, "extensions")
    /\ decoded.kind = "ok"
    /\ decoded.event.variant = "V1_0"
    /\ Get_dataschema(decoded.event.inner) = None

\* C26: for every string s the text value and the structured value of s are
\* different values with one encoding, which decodes to the text value; so
\* a built envelope whose data is a structured string decodes to an
\* envelope with the text value, which is not equal to the one encoded.
C26_DataNotInjective ==
    /\ \A s \in {<<>>, S("test"), <<"1", "2">>} :
          /\ Data_from_string(s) # Data_from_serializable(JStr(s))
          /\ Data_serialize(Data_from_string(s)) = Data_serialize(Data_from_serializable(JStr(s)))
          /\ Data_deserialize(Data_serialize(Data_from_serializable(JStr(s)))) = Data_from_string(s)
          /\ Data_deserialize(Data_serialize(Data_from_string(s))) = Data_from_string(s)
    /\ (DecodedAsSent /\ sent.data.some /\ IsStructured(sent.data.v, {"str"})) =>
          /\ decoded.kind = "ok"
          /\ Get_data(decoded.event) = Some(Data_from_string(sent.data.v.j.s))
          /\ Get_data(decoded.event) # Get_data(sent)
          /\ ~EventEq(decoded.event, sent)
          /\ SerializeEvent(decoded.event) = wire

C26_Witness ==
    /\ DecodedAsSent
    /\ sent.data = Some(StructuredString)
    /\ decoded.kind = "ok"
    /\ Get_data(decoded.event) = Some(Data_from_string(S("test")))
    /\ ~EventEq(decoded.event, sent)

\* A required key that is missing or holds something that is no string.
RequiredKeyBad(doc) ==
    \E k \in Range(RequiredKeys) :
        \/ ~Has(doc, k)
        \/ \E i \in 1..Len(doc) : doc[i][1] = k /\ doc[i][2].t # "str"

\* C27: decoding through the wrapper a document in which type, specversion,
\* source or id is missing or no string is an error, with no envelope and
\* no default for the missing key.
C27_RequiredKeysOrError ==
    (target = "CloudEvent" /\ decoded # NoResult /\ RequiredKeyBad(wire)) =>
        /\ decoded.kind = "err"
        /\ "event" \notin DOMAIN decoded
        /\ DeserializeV1_0(wire).kind = "err" /\ DeserializeV0_2(wire).kind = "err"

C27_Witness ==
    /\ target = "CloudEvent"
    /\ ~Has(wire, "specversion")
    /\ \A k \in {"type", "source", "id"} : Has(wire, k) /\ Val(wire, k).t = "str"
    /\ decoded.kind = "err"

\* The slots of a builder and the accessor that reads each optional one.
Slots(b) == DOMAIN b \ {"kind"}
OptionalSlots(b) == Slots(b) \ {"event_type", "source", "id"}
AccessorOf(e, slot) ==
    CASE slot = "time" -> Get_event_time(e)
      [] slot = "subject" -> Get_subject(e)
      [] slot = "dataschema" -> Get_dataschema(e)
      [] slot = "datacontenttype" -> Get_datacontenttype(e)
      [] slot = "schemaurl" -> Get_schema_url(e)
      [] slot = "contenttype" -> Get_contenttype(e)
      [] slot = "data" -> Get_data(e)
      [] slot = "extensions" -> Get_extensions(e)

\* A fresh builder has every slot absent, and an optional accessor of a
\* built envelope reads absent exactly when the slot is absent.
SlotsRead ==
    /\ \A fresh \in {CloudEventV1_0Builder_default, CloudEventV0_2Builder_default} :
          \A slot \in Slots(fresh) : fresh[slot] = None
    /\ (moved /\ result.kind = "ok") =>
          \A slot \in OptionalSlots(builder) :
              AccessorOf(result.event, slot).some = builder[slot].some

\* No step clears a slot; a slot becomes set only in the step of its own
\* setter; the extensions setter stores the map it is given.
SlotsKept ==
    /\ \A slot \in Slots(builder) :
          /\ builder[slot].some => builder'[slot].some
          /\ (~builder[slot].some /\ builder'[slot].some) =>
                /\ ~moved
                /\ builder' = WithSlot(builder, slot, builder'[slot].v)
    /\ \A e \in CodecExtensionsInputs :
          Builder_extensions(e) => builder'.extensions = Some(e)

\* C28: a fresh builder has every slot absent; no step makes a set slot
\* absent again and a slot becomes set only by its setter, so an optional
\* accessor of a built envelope reads absent exactly when that setter was
\* never called; a second extensions() call leaves exactly its own map.
C28_SlotsMonotone == []SlotsRead /\ [][SlotsKept]_vars

\* A built envelope whose builder had the extensions set and the subject
\* and the data never set.
C28_Witness ==
    /\ moved
    /\ result.kind = "ok"
    /\ builder.kind = "V1_0"
    /\ builder.extensions = Some("k" :> ExtensionValue_from_serializable(JNum(1)))
    /\ ~builder.subject.some /\ ~builder.data.some
    /\ builder.time.some
    /\ Get_extensions(result.event) = builder.extensions
    /\ Get_subject(result.event) = None /\ Get_data(result.event) = None

====
